---------------------------- MODULE Spec2Model ----------------------------
(***************************************************************************)
(* polara/recommender/models.py: the scoring-to-recommendation pipeline of *)
(* RecommenderModel and CoffeeModel.                                       *)
(*                                                                         *)
(* Arrays are functions on 0..n-1, as numpy indexes them; a matrix is a    *)
(* function from row index to row.  Scores are integers.  A Python value   *)
(* is a record with a "tag" field naming its type.                         *)
(***************************************************************************)
EXTENDS Integers, FiniteSets, Sequences, TLC

VARIABLES
    pc,                 \* position of the operation under study
    _recommendations,   \* RecommenderModel._recommendations
    _topk,              \* RecommenderModel._topk
    filter_seen,        \* RecommenderModel.filter_seen
    _flattener,         \* CoffeeModel._flattener
    built,              \* whether build() has set the factor attributes
    computedUnder,      \* history: the policy the cached matrix was computed under
    emptiedBy,          \* history: the operation that last emptied the cache
    lastOp,             \* history: the last operation, what it was called with and returned
    scores,             \* get_topk_items: its argument
    recs,               \* downvote_seen_items / get_topk_items: the local recs
    idx_seen,           \* downvote_seen_items: its argument
    recs0,              \* history: recs as passed to downvote_seen_items
    holdout_matrix,     \* get_matched_predictions: the local holdout_matrix
    recommendations,    \* get_matched_predictions: the local recommendations
    matched_predictions,\* get_matched_predictions: its result
    printed,            \* what get_matched_predictions printed
    testset,            \* CoffeeModel.get_recommendations: the test triples
    chunk,              \* CoffeeModel.chunk
    i,                  \* CoffeeModel.get_recommendations: the loop variable
    coffee_scores,      \* CoffeeModel.get_recommendations: the local coffee_scores
    written             \* history: how many times each row of coffee_scores was written

vars == <<pc, _recommendations, _topk, filter_seen, _flattener, built,
          computedUnder, emptiedBy, lastOp, scores, recs, idx_seen, recs0,
          holdout_matrix, recommendations, matched_predictions, printed,
          testset, chunk, i, coffee_scores, written>>

configVars == <<_topk, filter_seen, _flattener>>
cacheVars == <<_recommendations, built, computedUnder, emptiedBy>>
topkVars == <<scores>>
downvoteVars == <<idx_seen, recs0>>
alignVars == <<holdout_matrix, recommendations, matched_predictions, printed>>
coffeeVars == <<testset, chunk, i, coffee_scores, written>>

-----------------------------------------------------------------------------
(* Bounds and data shapes *)

NumItems == 3        \* columns of a score surface
MaxSeen == 2         \* seen interactions passed to downvote_seen_items
MaxRows == 3         \* rows of the recommendations and of the holdout matrix
MaxChunk == 3        \* CoffeeModel.chunk ranges over 1..MaxChunk
MaxTestUsers == 3    \* users of the test set of CoffeeModel

Users == 0..1        \* rows of a score surface
Items == 0..NumItems-1
TopkValues == 1..NumItems+1

_pad_const == -1

ScoreValues == -1..1
SeenItems == 0..1      \* columns of the surfaces passed to downvote_seen_items

None == [tag |-> "None"]
Idle == [tag |-> "idle"]

-----------------------------------------------------------------------------
(* numpy helpers *)

len(a) == Cardinality(DOMAIN a)

RECURSIVE SumSet(_, _)
SumSet(f, S) ==
    IF S = {} THEN 0
    ELSE LET x == CHOOSE y \in S : TRUE IN f[x] + SumSet(f, S \ {x})

\* np.sum / np.max / np.min of a one-dimensional array over an index set
sum(a, S) == SumSet(a, S)
max(a, S) == CHOOSE v \in {a[x] : x \in S} : \A y \in S : a[y] <= v
min(a, S) == CHOOSE v \in {a[x] : x \in S} : \A y \in S : a[y] >= v

Permutations0(n) ==
    {p \in [0..n-1 -> 0..n-1] : \A x, y \in 0..n-1 : p[x] = p[y] => x = y}

\* np.argsort(b), default kind (quicksort, not stable): every permutation that
\* sorts b ascending is an outcome
argsort(b) ==
    {s \in Permutations0(len(b)) :
        \A x, y \in DOMAIN b : x < y => b[s[x]] <= b[s[y]]}

\* np.argpartition(a, kth), introselect, not stable: the element at kth is in
\* its sorted position, smaller or equal ones before it, larger or equal after
argpartition(a, kth) ==
    {p \in Permutations0(len(a)) :
        /\ \A x \in DOMAIN a : x < kth => a[p[x]] <= a[p[kth]]
        /\ \A x \in DOMAIN a : x > kth => a[p[x]] >= a[p[kth]]}

-----------------------------------------------------------------------------
(* RecommenderModel.topsort *)

\* np.argpartition(a, -topk) raises ValueError (kth out of bounds) when topk
\* exceeds the length of a
topsort_raises(a, topk) == topk > len(a)

\* a faulty variant: the trailing argsort is dropped
topsort_unsorted(a, topk) ==
    IF topsort_raises(a, topk) THEN {}
    ELSE {[x \in 0..topk-1 |-> p[len(a) - topk + x]] :
             p \in argpartition(a, len(a) - topk)}

\* the set of arrays topsort(a, topk) can return (none when it raises)
topsort(a, topk) ==
    IF topsort_raises(a, topk) THEN {}
    ELSE UNION {
        LET parted == [x \in 0..topk-1 |-> p[len(a) - topk + x]]
        IN  {[x \in 0..topk-1 |-> parted[s[x]]] :
                s \in argsort([x \in 0..topk-1 |-> -a[parted[x]]])} :
        p \in argpartition(a, len(a) - topk)}

-----------------------------------------------------------------------------
(* Score surfaces: a dense ndarray [tag |-> "ndarray", a |-> matrix], or a   *)
(* scipy csr_matrix [tag |-> "csr", shape |-> <<rows, cols>>, data |-> the   *)
(* explicit entries, a function from <<row, col>> to a nonzero score]        *)

ndarray(m) == [tag |-> "ndarray", a |-> m]

\* csr_matrix(m) of a dense matrix m: the nonzero entries are the explicit ones
csr_matrix(m, nrows, ncols) ==
    [tag |-> "csr", shape |-> <<nrows, ncols>>,
     data |-> [e \in {<<u, c>> \in (0..nrows-1) \X (0..ncols-1) : m[u][c] # 0}
                  |-> m[e[1]][e[2]]]]

\* the x-th smallest (x = 0, 1, ...) element of a set of integers
nth(S, x) == CHOOSE v \in S : Cardinality({w \in S : w < v}) = x

\* the elements of a set of integers as an ascending array
sorted(S) == [x \in 0..Cardinality(S)-1 |-> nth(S, x)]

\* every matrix whose row x is one of rowOutcomes[x]
RowProduct(rowOutcomes) ==
    {m \in [DOMAIN rowOutcomes -> UNION {rowOutcomes[x] : x \in DOMAIN rowOutcomes}] :
        \A x \in DOMAIN rowOutcomes : m[x] \in rowOutcomes[x]}

-----------------------------------------------------------------------------
(* RecommenderModel.get_topk_items *)

\* topscore(x, k) of one group: cols and data are the group's columns and
\* scores, in the order of the csr structure (ascending column)
topscore(cols, data, k) ==
    LET nnz == len(data)
    IN  IF k >= nnz
        THEN {[x \in 0..k-1 |-> IF x < nnz THEN cols[s[x]] ELSE _pad_const] :
                 s \in argsort([x \in 0..nnz-1 |-> -data[x]])}
        ELSE {[x \in 0..k-1 |-> cols[t[x]]] : t \in topsort(data, k)}

\* scores.nonzero()[0] grouped: groupby(idx[0], sort=True) has one group per
\* row that holds an explicit entry
sparse_groups(sc) == {e[1] : e \in DOMAIN sc.data}

\* the set of results get_topk_items(scores) can return with self.topk = topk
get_topk_items(topk, sc) ==
    IF sc.tag = "csr"
    THEN LET groups == sorted(sparse_groups(sc))
             colsOf(u) == sorted({e[2] : e \in {d \in DOMAIN sc.data : d[1] = u}})
             dataOf(u) == [x \in DOMAIN colsOf(u) |-> sc.data[<<u, colsOf(u)[x]>>]]
             outcomes == [g \in DOMAIN groups |->
                             topscore(colsOf(groups[g]), dataOf(groups[g]), topk)]
         IN  {ndarray(m) : m \in RowProduct(outcomes)}
    ELSE LET outcomes == [u \in DOMAIN sc.a |-> topsort(sc.a[u], topk)]
         IN  IF \E u \in DOMAIN sc.a : topsort_raises(sc.a[u], topk)
             THEN {[tag |-> "ValueError"]}
             ELSE {ndarray(m) : m \in RowProduct(outcomes)}

-----------------------------------------------------------------------------
(* RecommenderModel.downvote_seen_items *)

\* np.in1d(ar1, set(...)): in1d passes its second argument through np.asarray,
\* which makes of a set an array of ONE element, the set object itself (numpy
\* documents this for in1d and isin); no index pair of ar1 equals that object,
\* so the mask is False everywhere
in1d_set(ar1, seen_set) == [e \in ar1 |-> FALSE]

\* lowered = recs.min() - (seen_data.max() - seen_data) - 1, for one seen score
lowered(lowest, seen_max, seen_score) ==
    lowest - (seen_max - seen_score) - 1

\* idx_seen is the pair <<users, items>> of parallel arrays; the result is recs
\* after the call (the call mutates its argument), or the exception raised
downvote_seen_items(rc, seen) ==
    LET users == seen[1]
        items == seen[2]
        pairs == {<<users[x], items[x]>> : x \in DOMAIN users}
    IN  IF rc.tag = "csr"
        THEN LET recs_idx == DOMAIN rc.data
                 idx_seen_bool == in1d_set(recs_idx, pairs)
                 hit == {e \in recs_idx : idx_seen_bool[e]}
             IN  IF hit # {}
                 THEN [rc EXCEPT !.data =
                          [e \in recs_idx |->
                              IF e \in hit
                              THEN lowered(min(rc.data, recs_idx),
                                           max(rc.data, hit), rc.data[e])
                              ELSE rc.data[e]]]
                 ELSE rc
        ELSE LET ncols == len(rc.a[0])
                 flat == [f \in {u * ncols + c : u \in DOMAIN rc.a, c \in 0..ncols-1}
                             |-> rc.a[f \div ncols][f % ncols]]
                 idx_seen_flat == {p[1] * ncols + p[2] : p \in pairs}
             IN  IF idx_seen_flat = {}
                 THEN [tag |-> "ValueError"]   \* seen_data.max() of an empty array
                 ELSE ndarray([u \in DOMAIN rc.a |-> [c \in 0..ncols-1 |->
                          IF u * ncols + c \in idx_seen_flat
                          THEN lowered(min(flat, DOMAIN flat),
                                       max(flat, idx_seen_flat), rc.a[u][c])
                          ELSE rc.a[u][c]]])

-----------------------------------------------------------------------------
(* What the variables of the other operations hold while one is studied *)

CacheIdle ==
    /\ _recommendations = None /\ built = FALSE
    /\ computedUnder = Idle /\ emptiedBy = "__init__"
TopkIdle == scores = Idle
DownvoteIdle == idx_seen = Idle /\ recs0 = Idle
AlignIdle ==
    /\ holdout_matrix = Idle /\ recommendations = Idle
    /\ matched_predictions = Idle /\ printed = Idle
CoffeeIdle ==
    /\ testset = Idle /\ chunk = 0 /\ i = 0
    /\ coffee_scores = Idle /\ written = <<>>

\* the score surfaces drawn as inputs: every matrix over ScoreValues with
\* nrows rows and ncols columns, dense or as the csr_matrix of its nonzeros
Surfaces(nrows, ncols) ==
    UNION {{ndarray(m), csr_matrix(m, nrows, ncols)} :
              m \in [0..nrows-1 -> [0..ncols-1 -> ScoreValues]]}

-----------------------------------------------------------------------------
(* get_topk_items on its own: SpecTopk *)

InitTopk ==
    /\ pc = "start"
    /\ scores \in Surfaces(Cardinality(Users), NumItems)
    /\ _topk \in TopkValues
    /\ recs = Idle
    /\ filter_seen = FALSE /\ _flattener = Idle /\ lastOp = Idle
    /\ CacheIdle /\ DownvoteIdle /\ AlignIdle /\ CoffeeIdle

GetTopkItems ==
    /\ pc = "start"
    /\ recs' \in get_topk_items(_topk, scores)
    /\ pc' = "done"
    /\ UNCHANGED <<configVars, cacheVars, lastOp, topkVars, downvoteVars,
                   alignVars, coffeeVars>>

NextTopk == GetTopkItems

SpecTopk == InitTopk /\ [][NextTopk]_vars

C6_SparseAllRows ==
    (pc = "done" /\ scores.tag = "csr") =>
        /\ recs.tag = "ndarray"
        /\ DOMAIN recs.a = 0..scores.shape[1]-1
        /\ \A u \in DOMAIN recs.a :
            /\ DOMAIN recs.a[u] = 0.._topk-1
            /\ \A x \in DOMAIN recs.a[u] :
                   \/ recs.a[u][x] = _pad_const
                   \/ <<u, recs.a[u][x]>> \in DOMAIN scores.data

-----------------------------------------------------------------------------
(* downvote_seen_items on its own: SpecDownvote *)

\* a set of <<user, item>> pairs as the pair of parallel arrays idx_seen
\* (ordered by flat index)
pair_arrays(S, ncols) ==
    LET flat == sorted({p[1] * ncols + p[2] : p \in S})
    IN  << [x \in DOMAIN flat |-> flat[x] \div ncols],
           [x \in DOMAIN flat |-> flat[x] % ncols] >>

SeenIndexes ==
    {pair_arrays(S, Cardinality(SeenItems)) :
        S \in {T \in SUBSET (Users \X SeenItems) : Cardinality(T) <= MaxSeen}}

seen_pairs(seen) == {<<seen[1][x], seen[2][x]>> : x \in DOMAIN seen[1]}

InitDownvote ==
    /\ pc = "start"
    /\ recs \in Surfaces(Cardinality(Users), Cardinality(SeenItems))
    /\ recs0 = recs
    /\ idx_seen \in SeenIndexes
    /\ _topk = 0 /\ filter_seen = FALSE /\ _flattener = Idle /\ lastOp = Idle
    /\ CacheIdle /\ TopkIdle /\ AlignIdle /\ CoffeeIdle

DownvoteSeenItems ==
    /\ pc = "start"
    /\ recs' = downvote_seen_items(recs, idx_seen)
    /\ pc' = "done"
    /\ UNCHANGED <<configVars, cacheVars, lastOp, topkVars, downvoteVars,
                   alignVars, coffeeVars>>

NextDownvote == DownvoteSeenItems

SpecDownvote == InitDownvote /\ [][NextDownvote]_vars

\* the scores of a surface as a function of the locations that hold one
explicit(rc) ==
    IF rc.tag = "csr" THEN rc.data
    ELSE [e \in (DOMAIN rc.a) \X SeenItems |-> rc.a[e[1]][e[2]]]

\* C5: after downvote_seen_items(S, P) every explicit score at a location
\* named in P is strictly less than every (explicit) score at a location not
\* named in P, and the scores at locations not named in P are unchanged; the
\* explicit entries of a sparse surface stay the same locations.
C5_SeenBelowUnseen ==
    (pc = "done" /\ recs.tag \in {"ndarray", "csr"}) =>
        LET after == explicit(recs)
            before == explicit(recs0)
            P == seen_pairs(idx_seen)
        IN  /\ recs.tag = recs0.tag
            /\ DOMAIN after = DOMAIN before
            /\ \A e \in DOMAIN after \ P : after[e] = before[e]
            /\ \A e \in DOMAIN after \cap P :
                   \A q \in DOMAIN after \ P : after[e] < after[q]

-----------------------------------------------------------------------------
(* RecommenderModel.get_matched_predictions, lines 69-77: the alignment of   *)
(* the recommendations read with the holdout matrix                          *)

\* a[:n, :], the first n rows
first_rows(a, n) == [u \in 0..n-1 |-> a[u]]

\* recommendations[:, :, None] == holdout_matrix[:, None, :]
match(recm, hold) ==
    [u \in DOMAIN recm |-> [c \in DOMAIN recm[u] |-> [h \in DOMAIN hold[u] |->
        recm[u][c] = hold[u][h]]]]

\* the locals and the output of get_matched_predictions after the read of
\* self.recommendations returned recm
align(recm, hold) ==
    LET truncated ==
            IF len(recm) > len(hold)
            THEN [printed |-> "Evaluation set is truncated.",
                  recommendations |-> first_rows(recm, len(hold)),
                  holdout_matrix |-> hold]
            ELSE IF len(recm) < len(hold)
            THEN [printed |-> "Recommendations are truncated.",
                  recommendations |-> recm,
                  holdout_matrix |-> first_rows(hold, len(recm))]
            ELSE [printed |-> "",
                  recommendations |-> recm,
                  holdout_matrix |-> hold]
    IN  [printed |-> truncated.printed,
         recommendations |-> truncated.recommendations,
         holdout_matrix |-> truncated.holdout_matrix,
         matched_predictions |->
             match(truncated.recommendations, truncated.holdout_matrix)]

\* the rows drawn for the recommendations (width 2) and for the holdout
\* matrix (holdout_size 1)
RecommendationRows == {(0 :> 0 @@ 1 :> 1), (0 :> 1 @@ 1 :> _pad_const)}
HoldoutRows == {(0 :> 0), (0 :> 1)}

Matrices(rows) == UNION {[0..n-1 -> rows] : n \in 1..MaxRows}

InitAlign ==
    /\ pc = "start"
    /\ recommendations \in Matrices(RecommendationRows)
    /\ holdout_matrix \in Matrices(HoldoutRows)
    /\ matched_predictions = Idle /\ printed = Idle
    /\ lastOp = Idle
    /\ _topk = 0 /\ filter_seen = FALSE /\ _flattener = Idle /\ recs = Idle
    /\ CacheIdle /\ TopkIdle /\ DownvoteIdle /\ CoffeeIdle

GetMatchedPredictions ==
    /\ pc = "start"
    /\ LET out == align(recommendations, holdout_matrix)
       IN  /\ printed' = out.printed
           /\ recommendations' = out.recommendations
           /\ holdout_matrix' = out.holdout_matrix
           /\ matched_predictions' = out.matched_predictions
    /\ lastOp' = [op |-> "get_matched_predictions",
                  recommendations |-> recommendations,
                  holdout_matrix |-> holdout_matrix]
    /\ pc' = "done"
    /\ UNCHANGED <<configVars, cacheVars, recs, topkVars, downvoteVars, coffeeVars>>

NextAlign == GetMatchedPredictions

SpecAlign == InitAlign /\ [][NextAlign]_vars

\* C4 as stated: get_matched_predictions returns a tensor whose leading
\* dimension is min(R, H); when R > H the recommendations are truncated and
\* the report says so, when R < H the holdout (the evaluation set) is
\* truncated and the report says so.
C4_TruncationReport ==
    pc = "done" =>
        LET R == len(lastOp.recommendations)
            H == len(lastOp.holdout_matrix)
        IN  /\ len(matched_predictions) = (IF R < H THEN R ELSE H)
            /\ R > H => /\ recommendations = first_rows(lastOp.recommendations, H)
                        /\ holdout_matrix = lastOp.holdout_matrix
                        /\ printed = "Recommendations are truncated."
            /\ R < H => /\ holdout_matrix = first_rows(lastOp.holdout_matrix, R)
                        /\ recommendations = lastOp.recommendations
                        /\ printed = "Evaluation set is truncated."

-----------------------------------------------------------------------------
(* Python values a flattener can be *)

PyStr(v) == [tag |-> "str", val |-> v]
PyInt(v) == [tag |-> "int", val |-> v]
PyFloat(tenths) == [tag |-> "float", val |-> tenths]        \* PyFloat(15) is 1.5
PyList(arr) == [tag |-> "list", val |-> arr]
SliceNone == [tag |-> "slice"]                            \* slice(None)
PyTuple(slicer, method) == [tag |-> "tuple", slicer |-> slicer, method |-> method]
\* a caller-supplied callable: lambda t: t.max(axis=-1) - t.min(axis=-1)
Spread == [tag |-> "function", val |-> "spread"]

\* bool(v), the truth value that "flattener or slice(None)" tests
bool(v) ==
    CASE v.tag = "None" -> FALSE
      [] v.tag = "str" -> v.val # ""
      [] v.tag \in {"int", "float"} -> v.val # 0
      [] v.tag = "list" -> len(v.val) > 0
      [] OTHER -> TRUE

\* Python's v != w: numbers compare by value across int and float
py_ne(v, w) ==
    IF v.tag \in {"int", "float"} /\ w.tag \in {"int", "float"}
    THEN (IF v.tag = "int" THEN 10 * v.val ELSE v.val)
             # (IF w.tag = "int" THEN 10 * w.val ELSE w.val)
    ELSE v # w

\* the factors of a built model: V is _items_factors (items x rank), W is
\* _feedback_factors (feedback levels x rank)
Feedback == 0..1
Ranks == 0..1
V == [it \in Items |-> [r \in Ranks |-> IF r = 0 THEN it + 1 ELSE NumItems - it]]
W == [f \in Feedback |-> [r \in Ranks |-> IF r = f THEN 1 ELSE 0]]

-----------------------------------------------------------------------------
(* CoffeeModel.flatten_scores *)

\* getattr(np, name)(values, axis=-1) for one (user, item): values is the
\* array along the feedback axis
np_reduce(name, values) ==
    CASE name = "sum" -> sum(values, DOMAIN values)
      [] name = "max" -> max(values, DOMAIN values)
      [] name = "min" -> min(values, DOMAIN values)

np_has(name) == name \in {"sum", "max", "min"}

\* tensor_scores[u, it, slicer] for a list or slice(None) slicer
take(levels, slicer) ==
    IF slicer.tag = "list" THEN [x \in DOMAIN slicer.val |-> levels[slicer.val[x]]]
    ELSE levels

\* flattener or slice(None)
or_slice_none(flattener) == IF bool(flattener) THEN flattener ELSE SliceNone

\* the matrix flatten_scores returns for a cube tensor_scores[u][it][f], or
\* the exception it raises
flatten_scores(tensor_scores, flattener0) ==
    LET flattener == or_slice_none(flattener0)
        each(F(_)) ==
            ndarray([u \in DOMAIN tensor_scores |->
                [it \in DOMAIN tensor_scores[u] |-> F(tensor_scores[u][it])]])
        aggregated(slicer, name) ==
            LET F(levels) == np_reduce(name, take(levels, slicer)) IN each(F)
        sliced(index) == LET F(levels) == levels[index] IN each(F)
        spread == LET F(levels) == max(levels, DOMAIN levels) - min(levels, DOMAIN levels)
                  IN  each(F)
    IN  CASE flattener.tag = "str" ->
                IF np_has(flattener.val) THEN aggregated(SliceNone, flattener.val)
                ELSE [tag |-> "AttributeError"]
          [] flattener.tag = "int" -> sliced(flattener.val)
          [] flattener.tag \in {"list", "slice"} -> aggregated(flattener, "sum")
          [] flattener.tag = "tuple" ->
                IF np_has(flattener.method)
                THEN aggregated(or_slice_none(flattener.slicer), flattener.method)
                ELSE [tag |-> "AttributeError"]
          [] flattener.tag = "function" -> spread
          [] OTHER -> [tag |-> "ValueError"]

-----------------------------------------------------------------------------
(* CoffeeModel.get_recommendations: the test set is a set of triples         *)
(* <<user, item, feedback index>>                                            *)

\* test_shp[0] = testset[userid].max() + 1
num_test_users(ts) == (CHOOSE u \in {t[1] : t \in ts} : \A t \in ts : t[1] <= u) + 1

\* a faulty variant: the chunk ends one row later
chunk_stop_plus_one(start, ch, n) == IF start + ch + 1 < n THEN start + ch + 1 ELSE n

\* stop = min(i + chunk, test_shp[0])
chunk_stop(start, ch, n) == IF start + ch < n THEN start + ch ELSE n

\* lines 455-458: the score cube of the users start..stop-1
slice_scores(ts, start, stop) ==
    LET users == 0..(stop - start - 1)
        \* test_tensor_mat[start*test_shp[1]:stop*test_shp[1], :]
        test_slice == [r \in 0..((stop - start) * NumItems - 1) |-> [f \in Feedback |->
            IF <<start + (r \div NumItems), r % NumItems, f>> \in ts THEN 1 ELSE 0]]
        \* test_slice.dot(w).reshape(stop-start, test_shp[1], w.shape[1])
        s1 == [u \in users |-> [it \in Items |-> [rf \in Ranks |->
            SumSet([f \in Feedback |-> test_slice[u * NumItems + it][f] * W[f][rf]],
                   Feedback)]]]
        \* np.tensordot(slice_scores, v, axes=(1, 0))
        s2 == [u \in users |-> [rf \in Ranks |-> [ri \in Ranks |->
            SumSet([it \in Items |-> s1[u][it][rf] * V[it][ri]], Items)]]]
        \* np.tensordot(slice_scores, v, axes=(2, 1))
        s3 == [u \in users |-> [rf \in Ranks |-> [it \in Items |->
            SumSet([ri \in Ranks |-> s2[u][rf][ri] * V[it][ri]], Ranks)]]]
        \* np.tensordot(..., w, axes=(1, 1))
    IN  [u \in users |-> [it \in Items |-> [f \in Feedback |->
            SumSet([rf \in Ranks |-> s3[u][rf][it] * W[f][rf]], Ranks)]]]

\* np.empty: a row not yet written holds whatever the memory held
Uninitialized == [tag |-> "uninitialized"]

\* one iteration of the loop at i = start: coffee_scores after
\* coffee_scores[start:stop, :] = flatten_scores(slice_scores, flattener),
\* or the exception flatten_scores raised
chunk_step(ts, ch, flattener, start, cs) ==
    LET stop == chunk_stop(start, ch, num_test_users(ts))
        flat == flatten_scores(slice_scores(ts, start, stop), flattener)
    IN  IF flat.tag = "ndarray"
        THEN ndarray([u \in DOMAIN cs.a |->
                 IF start <= u /\ u < stop THEN flat.a[u - start] ELSE cs.a[u]])
        ELSE flat

\* the loop of lines 451-460 from i = start on
RECURSIVE chunk_loop(_, _, _, _, _)
chunk_loop(ts, ch, flattener, start, cs) ==
    IF start >= num_test_users(ts) \/ cs.tag # "ndarray" THEN cs
    ELSE chunk_loop(ts, ch, flattener, start + ch,
                    chunk_step(ts, ch, flattener, start, cs))

\* idx_data[:2]: the users and items of the test set, as parallel arrays
test_idx(ts) == pair_arrays({<<t[1], t[2]>> : t \in ts}, NumItems)

\* lines 462-464: coffee_scores after the suppression of the seen items
\* (downvote_seen_items mutates it in place)
suppressed(ts, cs, fs) ==
    IF fs THEN downvote_seen_items(cs, test_idx(ts)) ELSE cs

\* lines 462-467: suppression and extraction; the set of values
\* get_recommendations can return, or the exception it raises
top_recs(ts, cs, fs, topk) ==
    IF cs.tag # "ndarray" THEN {cs}
    ELSE get_topk_items(topk, suppressed(ts, cs, fs))

\* CoffeeModel.get_recommendations of a built model
get_recommendations(ts, ch, flattener, fs, topk) ==
    top_recs(ts,
             chunk_loop(ts, ch, flattener, 0,
                        ndarray([u \in 0..num_test_users(ts)-1 |-> Uninitialized])),
             fs, topk)

-----------------------------------------------------------------------------
(* The flatteners and test sets drawn as inputs *)

\* the variants flatten_scores recognises (None is the default of its
\* argument); PyStr("nosuch") is a string that names no numpy function
RecognisedFlatteners ==
    {None, PyStr("sum"), PyStr("max"), PyStr("nosuch"), PyInt(0), PyInt(1),
     PyList((0 :> 1)), PyList((0 :> 0 @@ 1 :> 1)), SliceNone,
     PyTuple(None, "max"), PyTuple(PyList((0 :> 0)), "sum"), Spread}

\* values of no recognised variant: the floats 1.5 and 0.0
UnsupportedFlatteners == {PyFloat(15), PyFloat(0)}

FlattenerValues == RecognisedFlatteners \cup UnsupportedFlatteners

\* what one test user interacted with: a set of <<item, feedback index>>
UserInteractions ==
    {{<<NumItems - 1, 1>>}, {<<0, 1>>, <<NumItems - 1, 0>>}}

\* the test sets with 1..MaxTestUsers users
TestSets ==
    UNION {{ {<<u, p[1], p[2]>> : u \in 0..n-1, p \in UNION {c[v] : v \in 0..n-1}}
                 \cap {t \in (0..n-1) \X Items \X Feedback : <<t[2], t[3]>> \in c[t[1]]} :
             c \in [0..n-1 -> UserInteractions]} :
           n \in 1..MaxTestUsers}

-----------------------------------------------------------------------------
(* CoffeeModel.get_recommendations of a built model, chunk by chunk:         *)
(* SpecCoffee.  i is the value the loop variable takes next.                 *)

InitCoffee ==
    /\ pc = "loop"
    /\ testset \in TestSets
    /\ chunk \in 1..MaxChunk
    /\ _flattener \in FlattenerValues
    /\ filter_seen \in BOOLEAN
    /\ _topk = 1
    /\ i = 0
    /\ coffee_scores = ndarray([u \in 0..num_test_users(testset)-1 |-> Uninitialized])
    /\ written = [u \in 0..num_test_users(testset)-1 |-> 0]
    /\ recs = Idle /\ lastOp = Idle
    /\ _recommendations = None /\ built = TRUE
    /\ computedUnder = Idle /\ emptiedBy = "build"
    /\ TopkIdle /\ DownvoteIdle /\ AlignIdle

\* one iteration of the loop, lines 451-460
ChunkStep ==
    /\ pc = "loop"
    /\ i < num_test_users(testset)
    /\ LET out == chunk_step(testset, chunk, _flattener, i, coffee_scores)
           stop == chunk_stop(i, chunk, num_test_users(testset))
       IN  IF out.tag = "ndarray"
           THEN /\ coffee_scores' = out
                /\ written' = [u \in DOMAIN written |->
                                  IF i <= u /\ u < stop THEN written[u] + 1
                                  ELSE written[u]]
                /\ i' = i + chunk
                /\ UNCHANGED <<pc, lastOp>>
           ELSE /\ pc' = "raised"
                /\ lastOp' = [op |-> "get_recommendations", result |-> out]
                /\ UNCHANGED <<coffee_scores, written, i>>
    /\ UNCHANGED <<configVars, cacheVars, recs, topkVars, downvoteVars, alignVars,
                   testset, chunk>>

\* after the loop, lines 462-467
FinishRecommendations ==
    /\ pc = "loop"
    /\ i >= num_test_users(testset)
    /\ \E out \in top_recs(testset, coffee_scores, filter_seen, _topk) :
           /\ recs' = out
           /\ lastOp' = [op |-> "get_recommendations", result |-> out]
    /\ coffee_scores' = suppressed(testset, coffee_scores, filter_seen)
    /\ pc' = "done"
    /\ UNCHANGED <<configVars, cacheVars, topkVars, downvoteVars, alignVars,
                   testset, chunk, i, written>>

NextCoffee == ChunkStep \/ FinishRecommendations

SpecCoffee == InitCoffee /\ [][NextCoffee]_vars

\* the score matrix a run with chunk size ch builds for the test set and
\* flattener of the state
scores_with_chunk(ch) ==
    chunk_loop(testset, ch, _flattener, 0,
               ndarray([u \in 0..num_test_users(testset)-1 |-> Uninitialized]))

\* the loop of lines 451-460 has ended
LoopEnded == pc = "loop" /\ i >= num_test_users(testset)

C9_FixedSlice ==
    (LoopEnded /\ _flattener.tag = "int") =>
        LET cube == slice_scores(testset, 0, num_test_users(testset))
        IN  \A u \in DOMAIN coffee_scores.a : \A it \in Items :
                coffee_scores.a[u][it] = cube[u][it][_flattener.val]

-----------------------------------------------------------------------------
(* A CoffeeModel instance over fixed data, from its construction on: Spec    *)

test_chunk_size == 2

\* self.data: the test set and the holdout matrix (holdout_size 1)
TestData == {<<0, 0, 1>>, <<0, 1, 0>>, <<1, NumItems - 1, 1>>}
HoldoutData == (0 :> (0 :> 0) @@ 1 :> (0 :> NumItems - 1))

\* _recommendations.shape[1]
width(m) == len(m.a[0])

\* a faulty variant: a new value equal to the cached width empties the cache too
too_high_or_equal(new_value, cached) ==
    cached # None /\ new_value >= width(cached)

\* the condition of the topk setter, line 48
too_high(new_value, cached) ==
    cached # None /\ new_value > width(cached)

Init ==
    /\ pc = "ready"
    /\ _recommendations = None
    /\ _topk \in 1..NumItems
    /\ filter_seen \in BOOLEAN
    /\ _flattener = SliceNone
    /\ built = FALSE
    /\ computedUnder = Idle
    /\ emptiedBy = "__init__"
    /\ lastOp = [op |-> "__init__"]
    /\ testset = TestData
    /\ chunk = test_chunk_size
    /\ holdout_matrix = HoldoutData
    /\ i = 0 /\ coffee_scores = Idle /\ written = <<>>
    /\ recs = Idle
    /\ recommendations = Idle /\ matched_predictions = Idle /\ printed = Idle
    /\ TopkIdle /\ DownvoteIdle

dataVars == <<pc, testset, chunk, holdout_matrix, i, coffee_scores, written, recs,
              recommendations, matched_predictions, printed, topkVars, downvoteVars>>

\* model.topk = new_value, lines 45-50
SetTopk(new_value) ==
    /\ _recommendations' = IF too_high(new_value, _recommendations) THEN None
                           ELSE _recommendations
    /\ computedUnder' = IF too_high(new_value, _recommendations) THEN Idle
                        ELSE computedUnder
    /\ emptiedBy' = IF too_high(new_value, _recommendations) THEN "topk.setter"
                    ELSE emptiedBy
    /\ _topk' = new_value
    /\ lastOp' = [op |-> "topk.setter", arg |-> new_value, before |-> _recommendations]
    /\ UNCHANGED <<filter_seen, _flattener, built, dataVars>>

\* model.filter_seen = new_value: a plain attribute, line 24
SetFilterSeen(new_value) ==
    /\ filter_seen' = new_value
    /\ lastOp' = [op |-> "filter_seen", arg |-> new_value, old |-> filter_seen,
                  before |-> _recommendations]
    /\ UNCHANGED <<_topk, _flattener, cacheVars, dataVars>>

\* model.flattener = new_value, lines 373-378
SetFlattener(new_value) ==
    /\ IF py_ne(new_value, _flattener)
       THEN /\ _flattener' = new_value
            /\ _recommendations' = None
            /\ computedUnder' = Idle
            /\ emptiedBy' = "flattener.setter"
       ELSE UNCHANGED <<_flattener, _recommendations, computedUnder, emptiedBy>>
    /\ lastOp' = [op |-> "flattener.setter", arg |-> new_value, old |-> _flattener,
                  before |-> _recommendations]
    /\ UNCHANGED <<_topk, filter_seen, built, dataVars>>

\* what the factorisation called by build() may do (lines 409-414): return the
\* factors, or raise
tucker_als == {"factors", "raised"}

\* model.build(), lines 407-421: the cache is emptied first; the factor
\* attributes are assigned only when the factorisation returned
Build ==
    \E outcome \in tucker_als :
        /\ _recommendations' = None
        /\ computedUnder' = Idle
        /\ emptiedBy' = "build"
        /\ built' = (built \/ outcome = "factors")
        /\ lastOp' = [op |-> "build", before |-> _recommendations,
                      result |-> IF outcome = "factors" THEN None
                                 ELSE [tag |-> "Exception"]]
        /\ UNCHANGED <<configVars, dataVars>>

\* self.get_recommendations() as the property calls it: of a model that was
\* never built, line 426 raises AttributeError (no _items_factors)
call_get_recommendations(isBuilt, topk) ==
    IF isBuilt
    THEN get_recommendations(testset, chunk, _flattener, filter_seen, topk)
    ELSE {[tag |-> "AttributeError"]}

\* a faulty variant: the extraction is retried whatever build() did
rebuild_unguarded(outcome, topk, isBuilt) ==
    {[cache |-> IF second.tag = "ndarray" THEN second ELSE None,
      built |-> (isBuilt \/ outcome = "factors"), calls |-> 2, builds |-> 1,
      build_failed |-> (outcome = "raised"), result |-> second] :
        second \in call_get_recommendations(isBuilt \/ outcome = "factors", topk)}

\* the except branch of the property, lines 34-37: build(), then the second
\* call of get_recommendations unless build() raised
rebuild(outcome, topk, isBuilt) ==
    IF outcome = "raised"
    THEN {[cache |-> None, built |-> isBuilt, calls |-> 1, builds |-> 1,
           build_failed |-> TRUE, result |-> [tag |-> "Exception"]]}
    ELSE {[cache |-> IF second.tag = "ndarray" THEN second ELSE None,
           built |-> TRUE, calls |-> 2, builds |-> 1,
           build_failed |-> FALSE, result |-> second] :
             second \in call_get_recommendations(TRUE, topk)}

\* the read of model.recommendations, lines 29-38, with self.topk = topk: the
\* outcomes, each with the cache and the built flag it leaves, the calls of
\* get_recommendations and of build it made, and what it returned or raised
read_recommendations(topk, cached, isBuilt) ==
    IF cached # None
    THEN {[cache |-> cached, built |-> isBuilt, calls |-> 0, builds |-> 0,
           build_failed |-> FALSE, result |-> cached]}
    ELSE UNION {
        IF first.tag = "AttributeError"
        THEN UNION {rebuild(outcome, topk, isBuilt) : outcome \in tucker_als}
        ELSE {[cache |-> IF first.tag = "ndarray" THEN first ELSE None,
               built |-> isBuilt, calls |-> 1, builds |-> 0,
               build_failed |-> FALSE, result |-> first]} :
        first \in call_get_recommendations(isBuilt, topk)}

Policy == [flattener |-> _flattener, filter_seen |-> filter_seen]

\* what a read leaves in the history variables
AfterRead(out, cached) ==
    /\ _recommendations' = out.cache
    /\ built' = out.built
    /\ computedUnder' = IF out.cache = None THEN Idle
                        ELSE IF cached = None THEN Policy
                        ELSE computedUnder
    /\ emptiedBy' = IF out.builds > 0 /\ out.cache = None THEN "build" ELSE emptiedBy

\* model.recommendations
ReadRecommendations ==
    /\ \E out \in read_recommendations(_topk, _recommendations, built) :
           /\ AfterRead(out, _recommendations)
           /\ lastOp' = [op |-> "recommendations", before |-> _recommendations,
                         emptiedBy |-> emptiedBy, wasBuilt |-> built,
                         calls |-> out.calls, builds |-> out.builds,
                         build_failed |-> out.build_failed,
                         result |-> out.result]
    /\ UNCHANGED <<configVars, dataVars>>

\* a faulty variant: the matched predictions are cut to self.topk columns
upto_self_topk(mp, topk, self_topk) ==
    [u \in DOMAIN mp |-> [c \in {x \in DOMAIN mp[u] : x < self_topk} |-> mp[u][c]]]

\* matched_predictions[:, :topk, :], line 100 (topk is None or an integer)
upto(mp, topk, self_topk) ==
    [u \in DOMAIN mp |->
        [c \in {x \in DOMAIN mp[u] : topk = None \/ x < topk.val} |-> mp[u][c]]]

\* model.evaluate(method, topk) up to the call of the metric function, lines
\* 94-100; in Python 2 "None > self.topk" is False
Evaluate(topk) ==
    LET raise == topk # None /\ topk.val > _topk
        self_topk == IF raise THEN topk.val ELSE _topk
        cached == IF raise /\ too_high(topk.val, _recommendations) THEN None
                  ELSE _recommendations
    IN  /\ _topk' = self_topk
        /\ \E out \in read_recommendations(self_topk, cached, built) :
               /\ AfterRead(out, cached)
               /\ lastOp' = [op |-> "evaluate", arg |-> topk,
                             before |-> _recommendations,
                             calls |-> out.calls, builds |-> out.builds,
                             result |->
                                 IF out.result.tag = "ndarray"
                                 THEN ndarray(upto(
                                     align(out.result.a, holdout_matrix).matched_predictions,
                                     topk, self_topk))
                                 ELSE out.result]
        /\ UNCHANGED <<filter_seen, _flattener, dataVars>>

\* the flattener values the instance is configured with
ConfiguredFlatteners ==
    {SliceNone, PyStr("max"), PyStr("nosuch"), PyInt(0), PyFloat(0), PyFloat(15)}

Next ==
    \/ \E new_value \in 1..NumItems : SetTopk(new_value)
    \/ \E new_value \in BOOLEAN : SetFilterSeen(new_value)
    \/ \E new_value \in ConfiguredFlatteners : SetFlattener(new_value)
    \/ Build
    \/ ReadRecommendations
    \/ \E topk \in {None} \cup {PyInt(k) : k \in 1..NumItems} : Evaluate(topk)

Spec == Init /\ [][Next]_vars

-----------------------------------------------------------------------------
(* The cache of recommendations                                              *)

\* recommendations[:, :k]
first_columns(m, k) == ndarray([u \in DOMAIN m.a |-> [c \in 0..k-1 |-> m.a[u][c]]])

\* C1: once the cache holds a matrix of w columns, an assignment of topk empties
\* it exactly when the new value exceeds w; a read that finds a matrix serves
\* it without a call of get_recommendations and leaves it in place; the read
\* that follows a raise of topk above w calls get_recommendations exactly
\* once, without a build, and leaves a matrix of topk columns; a held matrix
\* is never narrower than topk.
C1_CacheLaw ==
    /\ _recommendations # None => _topk <= width(_recommendations)
    /\ lastOp.op = "topk.setter" /\ lastOp.before # None =>
           IF lastOp.arg > width(lastOp.before)
           THEN _recommendations = None
           ELSE _recommendations = lastOp.before
    /\ lastOp.op = "recommendations" /\ lastOp.before # None =>
           /\ lastOp.calls = 0
           /\ lastOp.result = lastOp.before
           /\ _recommendations = lastOp.before
    /\ lastOp.op = "recommendations" /\ lastOp.before = None
       /\ lastOp.emptiedBy = "topk.setter" =>
           /\ lastOp.calls = 1 /\ lastOp.builds = 0
           /\ _recommendations # None
           /\ width(_recommendations) = _topk
           /\ lastOp.result = _recommendations
    /\ lastOp.op = "evaluate" /\ lastOp.calls > 0 /\ lastOp.before # None =>
           lastOp.arg # None /\ lastOp.arg.val > width(lastOp.before)

\* a read recomputed the matrix at full width after a raise of topk emptied
\* a narrower one
C1_Witness ==
    /\ lastOp.op = "recommendations" /\ lastOp.before = None
    /\ lastOp.emptiedBy = "topk.setter"
    /\ lastOp.calls = 1
    /\ _recommendations # None /\ width(_recommendations) = NumItems

\* C2: a change of the flattening policy or of the suppression toggle empties
\* a filled cache, so that every matrix a read returns was computed under the
\* policy in force at the read.
C2_PolicyChangeInvalidates ==
    /\ lastOp.op = "flattener.setter" /\ lastOp.before # None
       /\ py_ne(lastOp.arg, lastOp.old) => _recommendations = None
    /\ lastOp.op = "filter_seen" /\ lastOp.before # None
       /\ lastOp.arg # lastOp.old => _recommendations = None
    /\ lastOp.op = "recommendations" /\ lastOp.result.tag = "ndarray" =>
           computedUnder = Policy

\* C3 as stated: a read that finds a matrix of w columns while topk = k <= w
\* returns exactly its first k columns and leaves the matrix in place.
C3_ReadSlicedToTopk ==
    lastOp.op = "recommendations" /\ lastOp.before # None =>
        /\ width(lastOp.result) = _topk
        /\ lastOp.result = first_columns(lastOp.before, _topk)
        /\ _recommendations = lastOp.before

\* C3, amended: a read that finds a matrix of w columns returns that matrix,
\* all w columns of it, and leaves it in place; the cut to k columns is made
\* by evaluate(topk=k), whose matched predictions for k <= w are those of the
\* first k columns of the cached matrix, which stays in place.
C3_SlicedByEvaluate ==
    /\ lastOp.op = "recommendations" /\ lastOp.before # None =>
           /\ lastOp.result = lastOp.before
           /\ _recommendations = lastOp.before
    /\ lastOp.op = "evaluate" /\ lastOp.before # None /\ lastOp.arg # None =>
           (lastOp.arg.val <= width(lastOp.before) =>
               /\ _recommendations = lastOp.before
               /\ \A u \in DOMAIN lastOp.result.a :
                      len(lastOp.result.a[u]) = lastOp.arg.val
               /\ lastOp.result.a =
                      match(first_columns(lastOp.before, lastOp.arg.val).a,
                            holdout_matrix))

\* evaluate(topk=k) ran on a cached matrix wider than k while self.topk was
\* above k too
C3_Witness ==
    /\ lastOp.op = "evaluate" /\ lastOp.before # None /\ lastOp.arg # None
    /\ lastOp.arg.val < _topk
    /\ _topk <= width(lastOp.before)
    /\ lastOp.result.tag = "ndarray"

\* C10: an unsupported flattener value is rejected when it is assigned: the
\* model never holds one and no matrix is computed under one.
C10_UnsupportedRejectedAtAssignment ==
    /\ _flattener \notin UnsupportedFlatteners
    /\ computedUnder # Idle => computedUnder.flattener \notin UnsupportedFlatteners

\* C11: a read that finds the cache empty on a model that was never built
\* calls build() exactly once; when build() returns it retries the extraction
\* exactly once, and the read leaves the matrix cached if the retry returns
\* one; when build() raises, or the retry raises, the read raises that error,
\* no further build or extraction is made, and the cache stays empty.
C11_NotReady ==
    lastOp.op = "recommendations" /\ lastOp.before = None /\ ~lastOp.wasBuilt =>
        /\ lastOp.builds = 1
        /\ IF lastOp.build_failed
           THEN /\ lastOp.calls = 1
                /\ lastOp.result.tag = "Exception"
                /\ _recommendations = None
                /\ ~built
           ELSE /\ lastOp.calls = 2
                /\ built
                /\ IF lastOp.result.tag = "ndarray"
                   THEN _recommendations = lastOp.result
                   ELSE _recommendations = None

\* a read of a model that was never built ended with the error of build()
C11_Witness ==
    /\ lastOp.op = "recommendations" /\ lastOp.before = None /\ ~lastOp.wasBuilt
    /\ lastOp.build_failed
    /\ _recommendations = None

=============================================================================
